---------------------------- MODULE Spec2Model ----------------------------
(***************************************************************************)
(* Model of the cron endpoint src/app/api/cron/route.ts: the GET handler   *)
(* that authenticates a request, fetches the RSS feeds one after the       *)
(* other, asks the generative model for a summary, extracts and parses the *)
(* JSON array of its answer and overwrites the 'daily_news' record of the  *)
(* key-value store.                                                        *)
(*                                                                         *)
(* A JavaScript string is a sequence of one-character strings.  A value    *)
(* that may be undefined/null is a record [def, str].  The handler is an   *)
(* async function: it runs without interruption from one await to the      *)
(* next, so there is one action per segment between two awaits and one per *)
(* outcome (resolved / rejected) of the awaited promise.                   *)
(***************************************************************************)
EXTENDS Integers, Sequences, FiniteSets, TLC

(***************************************************************************)
(* Bounds of the model.                                                    *)
(***************************************************************************)
MaxInvocations == 2
MaxFeedItems == 6
MaxTextLen == 6
MaxClock == 2

(***************************************************************************)
(* JavaScript strings and optional values.                                 *)
(***************************************************************************)
Undefined == [def |-> FALSE, str |-> <<>>]
Str(s) == [def |-> TRUE, str |-> s]

\* JS truthiness of a string-or-undefined value: undefined and '' are falsy.
Truthy(v) == v.def /\ v.str # <<>>

\* Strict equality a === b of two string-or-undefined values.
StrictEq(a, b) == a.def = b.def /\ (a.def => a.str = b.str)

\* String(v) as a template literal `${v}` computes it.
ToStringJS(v) == IF v.def THEN v.str ELSE <<"u", "n", "d", "e", "f", "i", "n", "e", "d">>

WhiteSpace == {" "}

RECURSIVE TrimStart(_)
TrimStart(s) ==
  IF s # <<>> /\ Head(s) \in WhiteSpace THEN TrimStart(Tail(s)) ELSE s

RECURSIVE TrimEnd(_)
TrimEnd(s) ==
  IF s # <<>> /\ s[Len(s)] \in WhiteSpace THEN TrimEnd(SubSeq(s, 1, Len(s) - 1)) ELSE s

\* String.prototype.trim
Trim(s) == TrimEnd(TrimStart(s))

\* x?.trim() : undefined stays undefined
OptTrim(v) == IF v.def THEN Str(Trim(v.str)) ELSE Undefined

Min(S) == CHOOSE x \in S : \A y \in S : x <= y
Max(S) == CHOOSE x \in S : \A y \in S : x >= y

\* All sequences over alphabet A of length at most n.
SeqsUpTo(A, n) == UNION {[1..k -> A] : k \in 0..n}

(***************************************************************************)
(* Lines 14-24: the authentication decision.                               *)
(***************************************************************************)
BearerPrefix == <<"B", "e", "a", "r", "e", "r", " ">>

\* `Bearer ${cronSecret}`
BearerOf(cronSecret) == Str(BearerPrefix \o ToStringJS(cronSecret))

\* line 19 without its `cronSecret &&`
HeaderOkFailOpen(cronSecret, authHeader) ==
  StrictEq(authHeader, BearerOf(cronSecret))

\* line 19
HeaderOk(cronSecret, authHeader) ==
  Truthy(cronSecret) /\ StrictEq(authHeader, BearerOf(cronSecret))

\* line 20 as the bare comparison secretParam === cronSecret
QueryOkFailOpen(cronSecret, rawSecret) ==
  LET secretParam == OptTrim(rawSecret)
  IN  StrictEq(secretParam, cronSecret)

\* line 17 without its trim()
QueryOkNoTrim(cronSecret, rawSecret) ==
  Truthy(cronSecret) /\ Truthy(rawSecret) /\ StrictEq(rawSecret, cronSecret)

\* line 17 and line 20
QueryOk(cronSecret, rawSecret) ==
  LET secretParam == OptTrim(rawSecret)
  IN  Truthy(cronSecret) /\ Truthy(secretParam) /\ StrictEq(secretParam, cronSecret)

\* line 22, negated
Authorized(cronSecret, authHeader, rawSecret) ==
  HeaderOk(cronSecret, authHeader) \/ QueryOk(cronSecret, rawSecret)

\* line 27 without its trim() test
ApiKeyConfiguredNoTrim(apiKey) == Truthy(apiKey)

\* line 27, negated
ApiKeyConfigured(apiKey) == Truthy(apiKey) /\ Trim(apiKey.str) # <<>>

(***************************************************************************)
(* Line 76: text.match(/\[[\s\S]*\]/).  The engine tries the start         *)
(* positions from the left; at a '[' the greedy star takes the rest of the *)
(* text and backtracks to the last ']' after the start.                    *)
(***************************************************************************)
NoMatch == [found |-> FALSE, str |-> <<>>]

\* The end of the greedy match starting at position s, 0 if none starts there.
MatchEndAt(text, s) ==
  IF text[s] = "["
    THEN LET ends == {e \in (s + 1)..Len(text) : text[e] = "]"}
         IN  IF ends = {} THEN 0 ELSE Max(ends)
    ELSE 0

\* A lazy star ( /\[[\s\S]*?\]/ ) would stop at the first ']'.
RegexMatchLazy(text) ==
  LET starts == {s \in 1..Len(text) :
                   text[s] = "[" /\ \E e \in (s + 1)..Len(text) : text[e] = "]"}
  IN  IF starts = {} THEN NoMatch
      ELSE LET s == Min(starts)
               e == Min({e \in (s + 1)..Len(text) : text[e] = "]"})
           IN  [found |-> TRUE, str |-> SubSeq(text, s, e)]

RegexMatch(text) ==
  LET starts == {s \in 1..Len(text) : MatchEndAt(text, s) > 0}
  IN  IF starts = {} THEN NoMatch
      ELSE LET s == Min(starts)
           IN  [found |-> TRUE, str |-> SubSeq(text, s, MatchEndAt(text, s))]

(***************************************************************************)
(* Line 81: JSON.parse, on the JSON texts built from arrays and objects.   *)
(* The characters are '[' ']' '{' '}' ',' and white space; any other       *)
(* character ("x": prose, a code fence) is a syntax error where a token is *)
(* expected.  An object's members are written without their keys: "{}" is  *)
(* an object, "{[]}" an object holding an array (as "tickers" does).  A    *)
(* parsed value is [t |-> "array" | "object", items |-> its members].      *)
(***************************************************************************)
JsonArray(items) == [t |-> "array", items |-> items]
JsonObject(items) == [t |-> "object", items |-> items]
ParseFail == [ok |-> FALSE, val |-> JsonArray(<<>>), next |-> 0]

RECURSIVE SkipWs(_, _)
SkipWs(s, i) ==
  IF i <= Len(s) /\ s[i] \in WhiteSpace THEN SkipWs(s, i + 1) ELSE i

Closer(open) == IF open = "[" THEN "]" ELSE "}"
MakeValue(open, items) == IF open = "[" THEN JsonArray(items) ELSE JsonObject(items)

RECURSIVE ParseValue(_, _), ParseMembers(_, _, _, _)
\* A value starting at position i (white space before it already skipped).
ParseValue(s, i) ==
  IF i > Len(s) \/ s[i] \notin {"[", "{"} THEN ParseFail
  ELSE LET j == SkipWs(s, i + 1)
       IN  IF j <= Len(s) /\ s[j] = Closer(s[i])
             THEN [ok |-> TRUE, val |-> MakeValue(s[i], <<>>), next |-> j + 1]
             ELSE ParseMembers(s, j, s[i], <<>>)

\* The members of the array or object opened by `open`, from the member at i.
ParseMembers(s, i, open, acc) ==
  LET v == ParseValue(s, i)
  IN  IF ~v.ok THEN ParseFail
      ELSE LET j == SkipWs(s, v.next)
               items == Append(acc, v.val)
           IN  IF j > Len(s) THEN ParseFail
               ELSE IF s[j] = Closer(open)
                 THEN [ok |-> TRUE, val |-> MakeValue(open, items), next |-> j + 1]
               ELSE IF s[j] = ","
                 THEN ParseMembers(s, SkipWs(s, j + 1), open, items)
               ELSE ParseFail

\* JSON.parse(s): [ok, val]; ok = FALSE stands for the SyntaxError thrown.
JSONParse(s) ==
  LET v == ParseValue(s, SkipWs(s, 1))
  IN  IF v.ok /\ SkipWs(s, v.next) > Len(s)
        THEN [ok |-> TRUE, val |-> v.val]
        ELSE [ok |-> FALSE, val |-> JsonArray(<<>>)]

(***************************************************************************)
(* Line 85: new Date().toISOString().  The clock reading is written as a   *)
(* text of decimal digits (the ISO-8601 text of the model's clock), which  *)
(* Date.parse reads back.                                                  *)
(***************************************************************************)
Digits == <<"0", "1", "2", "3", "4", "5", "6", "7", "8", "9">>

ToISOString(t) == <<Digits[(t \div 10) + 1], Digits[(t % 10) + 1]>>

DigitValue(d) == CHOOSE n \in 0..9 : Digits[n + 1] = d
DateParse(iso) == DigitValue(iso[1]) * 10 + DigitValue(iso[2])

(***************************************************************************)
(* Lines 8-11 and 38-48: the feeds and the aggregation.                    *)
(***************************************************************************)
RSS_FEEDS == <<"news.google.com/rss?economy+stock+market", "news.google.com/rss?KR">>

\* The k-th item of a feed document, as rss-parser returns it.
FeedItem(url, k) ==
  [title |-> <<url, k>>, link |-> <<url, "link", k>>, pubDate |-> k, guid |-> <<url, k>>]

\* The document a feed serves when it lists n items.
FeedDoc(url, n) == [k \in 1..n |-> FeedItem(url, k)]

\* line 42: slice(0, 5)
SliceEnd == 5

\* slice(0, 6): one item too many
SliceOneMore(items) ==
  SubSeq(items, 1, IF Len(items) < SliceEnd + 1 THEN Len(items) ELSE SliceEnd + 1)

Slice(items) == SubSeq(items, 1, IF Len(items) < SliceEnd THEN Len(items) ELSE SliceEnd)

\* lines 43-47: the fields kept of an item
PickFields(item) == [title |-> item.title, link |-> item.link, pubDate |-> item.pubDate]

\* lines 42-47: what one feed adds to allNews
MapItems(items) == [k \in 1..Len(Slice(items)) |-> PickFields(Slice(items)[k])]

\* line 43: allNews.push(...)
PushAll(allNews, items) == allNews \o MapItems(items)

(***************************************************************************)
(* Thrown values and responses.                                            *)
(***************************************************************************)
Error(message) == [isError |-> TRUE, message |-> message]
NotAnError == [isError |-> FALSE, message |-> ""]

\* line 96
ErrorMessage(error) == IF error.isError THEN error.message ELSE "Unknown error occurred"

NoResponse == [status |-> 0, kind |-> "none", body |-> "", count |-> 0]
\* line 23
Unauthorized401 == [status |-> 401, kind |-> "text", body |-> "Unauthorized", count |-> 0]
\* lines 29-32 and line 97: { success: false, error: message }
Json500(message) == [status |-> 500, kind |-> "json", body |-> message, count |-> 0]
\* lines 89-93: the page reporting summarizedNews.length
Html200(n) == [status |-> 200, kind |-> "html", body |-> "success page", count |-> n]

(***************************************************************************)
(* The key-value store.                                                    *)
(***************************************************************************)
KvKeys == {"daily_news", "other"}
NoValue == [has |-> FALSE, updatedAt |-> <<>>, news |-> JsonArray(<<>>)]
DailyBrief(updatedAt, news) == [has |-> TRUE, updatedAt |-> updatedAt, news |-> news]
\* A record left by an earlier run.
PriorBrief == DailyBrief(ToISOString(0), JsonArray(<<JsonArray(<<>>)>>))
NoCall == [key |-> "", value |-> NoValue]

(***************************************************************************)
(* State.                                                                  *)
(***************************************************************************)
Invs == 1..MaxInvocations

VARIABLES
  env,             \* process.env: [CRON_SECRET, GOOGLE_API_KEY]
  now,             \* the clock new Date() reads
  kv,              \* the store: key -> value
  kvInit,          \* the store's content before any invocation
  kvHist,          \* the invocations whose kv.set the store applied, in order
  pc,              \* per invocation: where the handler is
  req,             \* its request: [authorization, secret]
  startedAt,       \* the clock when the request arrived
  feedIdx,         \* the index in RSS_FEEDS of the feed being fetched
  feeds,           \* feed.items of the feeds fetched so far, in order
  allNews,         \* line 38
  prompt,          \* the news items embedded in the prompt (line 68)
  text,            \* line 73
  jsonMatch,       \* line 76
  summarizedNews,  \* line 81
  kvArg,           \* the arguments of the kv.set call (line 84)
  res,             \* the response returned
  events           \* per invocation: the calls made and answers given, in order

vars == <<env, now, kv, kvInit, kvHist, pc, req, startedAt, feedIdx, feeds, allNews,
          prompt, text, jsonMatch, summarizedNews, kvArg, res, events>>

world == <<env, kvInit>>
locals == <<req, startedAt, feedIdx, feeds, allNews, prompt, text, jsonMatch,
            summarizedNews, kvArg>>

Ev(name) == [e |-> name, k |-> 0]
EvFeed(name, k) == [e |-> name, k |-> k]

NoRequest == [authorization |-> Undefined, secret |-> Undefined]

InitWith(Envs, KvInits) ==
  /\ env \in Envs
  /\ now = 0
  /\ kvInit \in KvInits
  /\ kv = [key \in KvKeys |-> IF key = "daily_news" THEN kvInit ELSE NoValue]
  /\ kvHist = <<>>
  /\ pc = [i \in Invs |-> "idle"]
  /\ req = [i \in Invs |-> NoRequest]
  /\ startedAt = [i \in Invs |-> 0]
  /\ feedIdx = [i \in Invs |-> 0]
  /\ feeds = [i \in Invs |-> <<>>]
  /\ allNews = [i \in Invs |-> <<>>]
  /\ prompt = [i \in Invs |-> <<>>]
  /\ text = [i \in Invs |-> <<>>]
  /\ jsonMatch = [i \in Invs |-> NoMatch]
  /\ summarizedNews = [i \in Invs |-> JsonArray(<<>>)]
  /\ kvArg = [i \in Invs |-> NoCall]
  /\ res = [i \in Invs |-> NoResponse]
  /\ events = [i \in Invs |-> <<>>]

(***************************************************************************)
(* The handler, one action per segment between awaits.                     *)
(***************************************************************************)
\* return a response: the invocation is over
Respond(i, response, evs) ==
  /\ pc' = [pc EXCEPT ![i] = "done"]
  /\ res' = [res EXCEPT ![i] = response]
  /\ events' = [events EXCEPT ![i] = @ \o evs \o <<Ev("respond")>>]

\* lines 94-97: the catch block
Catch(i, error, evs) == Respond(i, Json500(ErrorMessage(error)), evs \o <<Ev("catch")>>)

Arrive(i, r) ==
  /\ pc[i] = "idle"
  /\ req' = [req EXCEPT ![i] = r]
  /\ startedAt' = [startedAt EXCEPT ![i] = now]

\* lines 14-24: neither check passes
GETUnauthorized(i, r) ==
  /\ Arrive(i, r)
  /\ ~Authorized(env.CRON_SECRET, r.authorization, r.secret)
  /\ Respond(i, Unauthorized401, <<Ev("auth")>>)
  /\ UNCHANGED <<world, now, kv, kvHist, feedIdx, feeds, allNews, prompt, text,
                 jsonMatch, summarizedNews, kvArg>>

\* lines 26-33: authorized, but no API key
GETConfigMissing(i, r) ==
  /\ Arrive(i, r)
  /\ Authorized(env.CRON_SECRET, r.authorization, r.secret)
  /\ ~ApiKeyConfigured(env.GOOGLE_API_KEY)
  /\ Respond(i, Json500("GOOGLE_API_KEY is not configured"), <<Ev("auth"), Ev("config")>>)
  /\ UNCHANGED <<world, now, kv, kvHist, feedIdx, feeds, allNews, prompt, text,
                 jsonMatch, summarizedNews, kvArg>>

\* the feeds fetched at once, as Promise.all(RSS_FEEDS.map(parseURL)) would
GETStartParallel(i, r) ==
  /\ Arrive(i, r)
  /\ Authorized(env.CRON_SECRET, r.authorization, r.secret)
  /\ ApiKeyConfigured(env.GOOGLE_API_KEY)
  /\ allNews' = [allNews EXCEPT ![i] = <<>>]
  /\ feedIdx' = [feedIdx EXCEPT ![i] = 1]
  /\ pc' = [pc EXCEPT ![i] = "fetching"]
  /\ events' = [events EXCEPT ![i] =
                  @ \o <<Ev("auth"), Ev("config"), EvFeed("parseURL", 1),
                         EvFeed("parseURL", 2)>>]
  /\ UNCHANGED <<world, now, kv, kvHist, feeds, prompt, text, jsonMatch,
                 summarizedNews, kvArg, res>>

\* lines 35-41: authorized and configured; up to the first await parser.parseURL
GETStart(i, r) ==
  /\ Arrive(i, r)
  /\ Authorized(env.CRON_SECRET, r.authorization, r.secret)
  /\ ApiKeyConfigured(env.GOOGLE_API_KEY)
  /\ allNews' = [allNews EXCEPT ![i] = <<>>]
  /\ feedIdx' = [feedIdx EXCEPT ![i] = 1]
  /\ pc' = [pc EXCEPT ![i] = "fetching"]
  /\ events' = [events EXCEPT ![i] = @ \o <<Ev("auth"), Ev("config"), EvFeed("parseURL", 1)>>]
  /\ UNCHANGED <<world, now, kv, kvHist, feeds, prompt, text, jsonMatch,
                 summarizedNews, kvArg, res>>

\* lines 41-48, 50-71: parseURL resolved with a feed of `items`; the loop goes
\* on to the next feed, or ends and the prompt goes to model.generateContent
FeedResolved(i, items) ==
  /\ pc[i] = "fetching"
  /\ feeds' = [feeds EXCEPT ![i] = Append(@, items)]
  /\ allNews' = [allNews EXCEPT ![i] = PushAll(@, items)]
  /\ IF feedIdx[i] < Len(RSS_FEEDS)
       THEN /\ feedIdx' = [feedIdx EXCEPT ![i] = @ + 1]
            /\ events' = [events EXCEPT ![i] =
                            @ \o <<EvFeed("feed", feedIdx[i]),
                                   EvFeed("parseURL", feedIdx[i] + 1)>>]
            /\ UNCHANGED <<pc, prompt>>
       ELSE /\ prompt' = [prompt EXCEPT ![i] = allNews'[i]]
            /\ pc' = [pc EXCEPT ![i] = "summarizing"]
            /\ events' = [events EXCEPT ![i] =
                            @ \o <<EvFeed("feed", feedIdx[i]), Ev("generateContent")>>]
            /\ UNCHANGED feedIdx
  /\ UNCHANGED <<world, now, kv, kvHist, req, startedAt, text, jsonMatch,
                 summarizedNews, kvArg, res>>

\* a try/catch around line 41 alone: the failing feed is skipped
FeedRejectedSkip(i, error) ==
  /\ pc[i] = "fetching"
  /\ feeds' = [feeds EXCEPT ![i] = Append(@, <<>>)]
  /\ IF feedIdx[i] < Len(RSS_FEEDS)
       THEN /\ feedIdx' = [feedIdx EXCEPT ![i] = @ + 1]
            /\ events' = [events EXCEPT ![i] =
                            @ \o <<EvFeed("feedError", feedIdx[i]),
                                   EvFeed("parseURL", feedIdx[i] + 1)>>]
            /\ UNCHANGED <<pc, prompt>>
       ELSE /\ prompt' = [prompt EXCEPT ![i] = allNews[i]]
            /\ pc' = [pc EXCEPT ![i] = "summarizing"]
            /\ events' = [events EXCEPT ![i] =
                            @ \o <<EvFeed("feedError", feedIdx[i]), Ev("generateContent")>>]
            /\ UNCHANGED feedIdx
  /\ UNCHANGED <<world, now, kv, kvHist, req, startedAt, allNews, text, jsonMatch,
                 summarizedNews, kvArg, res>>

\* line 41 throws: parseURL rejected
FeedRejected(i, error) ==
  /\ pc[i] = "fetching"
  /\ Catch(i, error, <<EvFeed("feedError", feedIdx[i])>>)
  /\ UNCHANGED <<world, now, kv, kvHist, locals>>

\* lines 71-73 throw: generateContent rejected, or response.text() threw
GenerateRejected(i, error) ==
  /\ pc[i] = "summarizing"
  /\ Catch(i, error, <<Ev("generateError")>>)
  /\ UNCHANGED <<world, now, kv, kvHist, locals>>

\* the record written under another key
KvSetArgsOtherKey(news) == [key |-> "other", value |-> DailyBrief(ToISOString(now), news)]

\* line 84: the key and the value of the kv.set call
KvSetArgs(news) == [key |-> "daily_news", value |-> DailyBrief(ToISOString(now), news)]

\* lines 71-87: generateContent resolved with text t; match, parse, and up to
\* the await kv.set
GenerateResolved(i, t) ==
  /\ pc[i] = "summarizing"
  /\ text' = [text EXCEPT ![i] = t]
  /\ jsonMatch' = [jsonMatch EXCEPT ![i] = RegexMatch(t)]
  /\ LET m == RegexMatch(t)
         parsed == JSONParse(m.str)
     IN  IF ~m.found
           THEN /\ Catch(i, Error("Failed to parse Gemini response as JSON"),
                         <<Ev("text"), Ev("match")>>)
                /\ UNCHANGED <<summarizedNews, kvArg>>
         ELSE IF ~parsed.ok
           THEN /\ Catch(i, Error("SyntaxError"), <<Ev("text"), Ev("match"), Ev("JSON.parse")>>)
                /\ UNCHANGED <<summarizedNews, kvArg>>
         ELSE /\ summarizedNews' = [summarizedNews EXCEPT ![i] = parsed.val]
              /\ kvArg' = [kvArg EXCEPT ![i] = KvSetArgs(parsed.val)]
              /\ pc' = [pc EXCEPT ![i] = "storing"]
              /\ events' = [events EXCEPT ![i] =
                              @ \o <<Ev("text"), Ev("match"), Ev("JSON.parse"), Ev("kv.set")>>]
              /\ UNCHANGED res
  /\ UNCHANGED <<world, now, kv, kvHist, req, startedAt, feedIdx, feeds, allNews,
                 prompt>>

\* a read-modify-write that appends the new items to the stored ones
KvWriteMerge(store, key, value) ==
  [store EXCEPT ![key] =
     DailyBrief(value.updatedAt, JsonArray(@.news.items \o value.news.items))]

\* The store's content after it applied set(key, value): the key is overwritten.
KvWrite(store, key, value) == [store EXCEPT ![key] = value]

\* the store applies the write of invocation i
KvApply(i) ==
  /\ pc[i] = "storing"
  /\ kv' = KvWrite(kv, kvArg[i].key, kvArg[i].value)
  /\ kvHist' = Append(kvHist, i)
  /\ pc' = [pc EXCEPT ![i] = "stored"]
  /\ events' = [events EXCEPT ![i] = Append(@, Ev("kv.applied"))]
  /\ UNCHANGED <<world, now, locals, res>>

\* lines 89-93: kv.set resolved
KvSetResolved(i) ==
  /\ pc[i] = "stored"
  /\ Respond(i, Html200(Len(summarizedNews[i].items)), <<>>)
  /\ UNCHANGED <<world, now, kv, kvHist, locals>>

\* line 84 throws: kv.set rejected, the write applied or not
KvSetRejected(i, error) ==
  /\ pc[i] \in {"storing", "stored"}
  /\ Catch(i, error, <<Ev("kvError")>>)
  /\ UNCHANGED <<world, now, kv, kvHist, locals>>

\* time passes
Tick ==
  /\ now < MaxClock
  /\ now' = now + 1
  /\ UNCHANGED <<world, kv, kvHist, pc, locals, res, events>>

(***************************************************************************)
(* Inputs.                                                                 *)
(***************************************************************************)
Secret == <<"s">>
WrongSecret == <<"t">>

\* process.env, every combination of a missing, empty or set variable
CronSecrets == {Undefined, Str(<<>>), Str(Secret)}
ApiKeys == {Undefined, Str(<<>>), Str(<<" ">>), Str(<<"k">>)}
Envs == [CRON_SECRET : CronSecrets, GOOGLE_API_KEY : ApiKeys]

\* the authorization header: absent, a bearer token, or the bare secret
AuthHeaders ==
  {Undefined, Str(Secret)}
    \cup {Str(BearerPrefix \o x) : x \in {<<>>, ToStringJS(Undefined), Secret, WrongSecret}}

\* the 'secret' query parameter as searchParams.get returns it
SecretParams ==
  {Undefined, Str(<<>>), Str(<<" ">>), Str(Secret), Str(<<" ">> \o Secret \o <<" ">>),
   Str(WrongSecret)}

Requests == [authorization : AuthHeaders, secret : SecretParams]

\* what a rejected promise may carry
Thrown == {Error("upstream failure"), NotAnError}

\* the characters of the summarizer's text: "x" is any character of prose
TextAlphabet == {"[", "]", "{", "}", ",", "x"}
Texts == SeqsUpTo(TextAlphabet, MaxTextLen)

\* answers of the summarizer: fenced, bare, empty, without an array, not JSON
SampleTexts ==
  { <<"x", "[", "{", "}", "]", "x">>,
    <<"x", "[", "{", "}", ",", "{", "[", "]", "}", "]", "x">>,
    <<"[", "{", "}", ",", " ", "{", "[", "]", "}", "]">>,
    <<"[", "]">>,
    <<"x", "x">>,
    <<"]", "x", "[">>,
    <<"[", "x", "]">> }

\* the narrow inputs of the specifications that widen one dimension only
FewRequests ==
  { [authorization |-> BearerOf(Str(Secret)), secret |-> Undefined],
    [authorization |-> Undefined, secret |-> Str(WrongSecret)] }
FewEnvs == [CRON_SECRET : {Str(Secret)}, GOOGLE_API_KEY : {Undefined, Str(<<"k">>)}]
FewTexts == { <<"[", "{", "}", "]">>, <<"[", "{", "}", ",", "{", "}", "]">>, <<"x">> }

(***************************************************************************)
(* The steps of invocation i, its inputs drawn from the given sets.        *)
(***************************************************************************)
Handler(i, Reqs, Sizes, Errs, Txts) ==
  \/ pc[i] = "idle" /\ \E r \in Reqs : GETUnauthorized(i, r)
  \/ pc[i] = "idle" /\ \E r \in Reqs : GETConfigMissing(i, r)
  \/ pc[i] = "idle" /\ \E r \in Reqs : GETStart(i, r)
  \/ pc[i] = "fetching" /\ \E n \in Sizes : FeedResolved(i, FeedDoc(RSS_FEEDS[feedIdx[i]], n))
  \/ pc[i] = "fetching" /\ \E e \in Errs : FeedRejected(i, e)
  \/ pc[i] = "summarizing" /\ \E t \in Txts : GenerateResolved(i, t)
  \/ pc[i] = "summarizing" /\ \E e \in Errs : GenerateRejected(i, e)
  \/ KvApply(i)
  \/ KvSetResolved(i)
  \/ pc[i] \in {"storing", "stored"} /\ \E e \in Errs : KvSetRejected(i, e)

FirstInv == Min(Invs)
OneError == {Error("upstream failure")}

\* One invocation, over every feed size, thrown value and kind of answer.
Init == InitWith(FewEnvs, {NoValue, PriorBrief})
Next == Tick \/ Handler(FirstInv, FewRequests, 0..MaxFeedItems, Thrown, SampleTexts)
Spec == Init /\ [][Next]_vars

\* One invocation, over every environment and request.
InitAuth == InitWith(Envs, {NoValue})
NextAuth == Tick \/ Handler(FirstInv, Requests, {1}, OneError, FewTexts)
SpecAuth == InitAuth /\ [][NextAuth]_vars

\* One invocation, over every text of up to MaxTextLen characters and the
\* sample answers (the clock stands still).
InitParser == InitWith(FewEnvs, {NoValue})
NextParser == Handler(FirstInv, FewRequests, {1}, OneError, Texts \cup SampleTexts)
SpecParser == InitParser /\ [][NextParser]_vars

\* Concurrent invocations: their steps interleave in any order.  The clock
\* stands still here: which write the store keeps does not depend on it.
InitRace == InitWith(FewEnvs, {NoValue, PriorBrief})
NextRace == \E i \in Invs : Handler(i, FewRequests, {1}, OneError, FewTexts)
SpecRace == InitRace /\ [][NextRace]_vars

(***************************************************************************)
(* Vocabulary of the properties.                                           *)
(***************************************************************************)
Has(i, name) == \E n \in DOMAIN events[i] : events[i][n].e = name
HasFeed(i, name, k) == \E n \in DOMAIN events[i] : events[i][n] = EvFeed(name, k)
Times(i, name) == Cardinality({n \in DOMAIN events[i] : events[i][n].e = name})
Answered(i) == pc[i] = "done"
Received(i) == pc[i] # "idle"

\* no feed fetch, no summarizer call, no store write by invocation i
NoUpstreamCall(i) ==
  /\ ~Has(i, "parseURL") /\ ~Has(i, "generateContent") /\ ~Has(i, "kv.set")
  /\ \A n \in DOMAIN kvHist : kvHist[n] # i

\* the request's header reads 'Bearer <CRON_SECRET>'
HeaderIsBearerSecret(i) ==
  /\ env.CRON_SECRET.def /\ req[i].authorization.def
  /\ req[i].authorization.str = BearerPrefix \o env.CRON_SECRET.str

\* the request's 'secret' parameter, trimmed, reads CRON_SECRET
QueryIsSecret(i) ==
  /\ env.CRON_SECRET.def /\ req[i].secret.def
  /\ Trim(req[i].secret.str) = env.CRON_SECRET.str

SecretConfigured == env.CRON_SECRET.def /\ env.CRON_SECRET.str # <<>>

PassedAuth(i) == Received(i) /\ res[i].status # 401 /\ Has(i, "config")

\* GOOGLE_API_KEY is missing, empty or white space only
ApiKeyMissing ==
  \/ ~env.GOOGLE_API_KEY.def
  \/ \A n \in DOMAIN env.GOOGLE_API_KEY.str : env.GOOGLE_API_KEY.str[n] \in WhiteSpace

ConfigMissing500 == Json500("GOOGLE_API_KEY is not configured")

(***************************************************************************)
(* C1: a request that carries neither the header 'Bearer <CRON_SECRET>'    *)
(* nor a 'secret' parameter whose trimmed value is CRON_SECRET is answered *)
(* 401 with the plain text 'Unauthorized' (the same answer whichever check *)
(* failed), and its invocation fetches no feed, calls no summarizer and    *)
(* writes nothing to the store.                                            *)
(***************************************************************************)
C1_UnauthorizedIs401 ==
  \A i \in Invs :
    (Received(i) /\ ~HeaderIsBearerSecret(i) /\ ~QueryIsSecret(i))
      => /\ Answered(i)
         /\ res[i] = Unauthorized401
         /\ NoUpstreamCall(i)

\* a wrong bearer token and a wrong query secret, with a secret configured
C1_Witness ==
  /\ SecretConfigured
  /\ req[FirstInv].authorization = Str(BearerPrefix \o WrongSecret)
  /\ req[FirstInv].secret = Str(WrongSecret)
  /\ res[FirstInv] = Unauthorized401

(***************************************************************************)
(* C2: authentication fails closed.  With CRON_SECRET undefined or empty,  *)
(* every request is answered 401, whatever its header and its parameter.   *)
(***************************************************************************)
C2_FailsClosed ==
  \A i \in Invs :
    (Received(i) /\ (~env.CRON_SECRET.def \/ env.CRON_SECRET.str = <<>>))
      => Answered(i) /\ res[i] = Unauthorized401 /\ NoUpstreamCall(i)

\* no secret configured and the header 'Bearer undefined'
C2_Witness ==
  /\ ~env.CRON_SECRET.def
  /\ req[FirstInv].authorization = Str(BearerPrefix \o ToStringJS(Undefined))
  /\ res[FirstInv] = Unauthorized401

(***************************************************************************)
(* C3 as stated: a request is authorized exactly when its header is the    *)
(* bearer-token form of the secret or its trimmed query value is the       *)
(* secret.                                                                 *)
(***************************************************************************)
C3_AsStated ==
  \A i \in Invs :
    Received(i) => (PassedAuth(i) <=> (HeaderIsBearerSecret(i) \/ QueryIsSecret(i)))

(***************************************************************************)
(* C3 as amended: provided a non-empty secret is configured, a request     *)
(* with the right query secret (after trimming) and no header passes the   *)
(* Authenticator, and a request is authorized exactly when its header is   *)
(* the bearer-token form of the secret or its trimmed query value is the   *)
(* secret; with no secret or an empty secret no request is authorized.     *)
(***************************************************************************)
C3_AuthorizedExactlyWhen ==
  \A i \in Invs :
    Received(i) =>
      /\ PassedAuth(i) <=> (SecretConfigured /\ (HeaderIsBearerSecret(i) \/ QueryIsSecret(i)))
      /\ ~PassedAuth(i) => res[i] = Unauthorized401

\* the query-only path, the parameter padded with white space
C3_Witness ==
  /\ ~req[FirstInv].authorization.def
  /\ req[FirstInv].secret = Str(<<" ">> \o Secret \o <<" ">>)
  /\ PassedAuth(FirstInv)
  /\ Has(FirstInv, "parseURL")

(***************************************************************************)
(* C4 as stated: with GOOGLE_API_KEY missing, empty or white space only    *)
(* the handler answers 500 with {success: false, error: <config missing>}  *)
(* and calls neither the feeds, the summarizer nor the store.              *)
(***************************************************************************)
C4_AsStated ==
  \A i \in Invs :
    (Received(i) /\ ApiKeyMissing)
      => Answered(i) /\ res[i] = ConfigMissing500 /\ NoUpstreamCall(i)

(***************************************************************************)
(* C4 as amended: the same, for a request that passes the Authenticator    *)
(* (an unauthorized request is answered 401 before the key is looked at);  *)
(* in either case no feed, summarizer or store call is made.               *)
(***************************************************************************)
C4_ConfigMissingIs500 ==
  \A i \in Invs :
    (Received(i) /\ ApiKeyMissing)
      => /\ Answered(i)
         /\ NoUpstreamCall(i)
         /\ res[i] = IF SecretConfigured /\ (HeaderIsBearerSecret(i) \/ QueryIsSecret(i))
                       THEN ConfigMissing500
                       ELSE Unauthorized401

\* an authorized request and a key of white space only
C4_Witness ==
  /\ env.GOOGLE_API_KEY = Str(<<" ">>)
  /\ HeaderIsBearerSecret(FirstInv)
  /\ res[FirstInv] = ConfigMissing500

(***************************************************************************)
(* C5: the list passed to the summarizer is, feed after feed in the order  *)
(* of RSS_FEEDS, the first min(5, n) items of each feed in the feed's own  *)
(* order; two feeds of at least 5 items give exactly 5 items of feed 1     *)
(* followed by exactly 5 items of feed 2.                                  *)
(***************************************************************************)
FirstFive(items) ==
  [k \in 1..(IF Len(items) < 5 THEN Len(items) ELSE 5) |->
     [title |-> items[k].title, link |-> items[k].link, pubDate |-> items[k].pubDate]]

RECURSIVE FirstFiveOfEach(_)
FirstFiveOfEach(docs) ==
  IF docs = <<>> THEN <<>> ELSE FirstFive(Head(docs)) \o FirstFiveOfEach(Tail(docs))

C5_FirstFiveOfEachFeedInOrder ==
  \A i \in Invs :
    Has(i, "generateContent") =>
      /\ Len(feeds[i]) = Len(RSS_FEEDS)
      /\ \A f \in DOMAIN feeds[i] : \A k \in DOMAIN feeds[i][f] :
           feeds[i][f][k] = FeedItem(RSS_FEEDS[f], k)
      /\ prompt[i] = FirstFiveOfEach(feeds[i])
      /\ (Len(feeds[i][1]) >= 5 /\ Len(feeds[i][2]) >= 5) =>
           /\ Len(prompt[i]) = 10
           /\ \A k \in 1..5 :
                /\ prompt[i][k].title = FeedItem(RSS_FEEDS[1], k).title
                /\ prompt[i][5 + k].title = FeedItem(RSS_FEEDS[2], k).title

\* both feeds list more than 5 items
C5_Witness ==
  /\ Has(FirstInv, "generateContent")
  /\ Len(feeds[FirstInv][1]) > 5 /\ Len(feeds[FirstInv][2]) > 5
  /\ Len(prompt[FirstInv]) = 10

(***************************************************************************)
(* C6: when a step before the store write fails in an authorized           *)
(* invocation (a feed fetch, the summarizer call, a text without '[...]',  *)
(* a bracketed region that is not JSON), kv.set is never called in that    *)
(* invocation, the store holds the value it held before, and the answer is *)
(* 500 with {success: false, error: <message>}; after a failure of the     *)
(* first feed the second feed is not fetched and the summarizer not called.*)
(***************************************************************************)
HasArrayShape(t) == \E a, b \in DOMAIN t : a < b /\ t[a] = "[" /\ t[b] = "]"

\* the region from the first '[' to the last ']' of a text that has both
BracketRegion(t) ==
  SubSeq(t, Min({a \in DOMAIN t : t[a] = "["}), Max({b \in DOMAIN t : t[b] = "]"}))

FeedFailed(i) == Has(i, "feedError")
SummarizerFailed(i) == Has(i, "generateError")
NoArrayInText(i) == Has(i, "text") /\ ~HasArrayShape(text[i])
ArrayNotJson(i) ==
  Has(i, "text") /\ HasArrayShape(text[i]) /\ ~JSONParse(BracketRegion(text[i])).ok

FailedBeforeStore(i) ==
  FeedFailed(i) \/ SummarizerFailed(i) \/ NoArrayInText(i) \/ ArrayNotJson(i)

StoreUntouched == kv = [key \in KvKeys |-> IF key = "daily_news" THEN kvInit ELSE NoValue]

C6_FailureLeavesStore ==
  \A i \in Invs :
    FailedBeforeStore(i) =>
      /\ Answered(i)
      /\ ~Has(i, "kv.set") /\ ~Has(i, "kv.applied")
      /\ \A n \in DOMAIN kvHist : kvHist[n] # i
      /\ StoreUntouched
      /\ res[i].status = 500 /\ res[i].kind = "json"
      /\ NoArrayInText(i) => res[i] = Json500("Failed to parse Gemini response as JSON")
      /\ FeedFailed(i) => ~Has(i, "generateContent")
      /\ HasFeed(i, "feedError", 1) => ~HasFeed(i, "parseURL", 2)

\* the first feed failed, with a record in the store
C6_Witness ==
  /\ HasFeed(FirstInv, "feedError", 1)
  /\ res[FirstInv].status = 500
  /\ kvInit = PriorBrief /\ kv["daily_news"] = PriorBrief

(***************************************************************************)
(* C7: on full success exactly one store write is made, under the key      *)
(* 'daily_news'; its value has 'news' equal to the array parsed from the   *)
(* summarizer's text, and 'updatedAt' equal to the clock read when the     *)
(* write is issued, hence not earlier than the start of the invocation.    *)
(***************************************************************************)
Succeeded(i) == Answered(i) /\ res[i].status = 200
TimesApplied(i) == Cardinality({n \in DOMAIN kvHist : kvHist[n] = i})

C7_SuccessState ==
  \A i \in Invs :
    Succeeded(i) =>
      /\ Times(i, "kv.set") = 1 /\ TimesApplied(i) = 1
      /\ kvArg[i].key = "daily_news"
      /\ kvArg[i].value.has
      /\ kvArg[i].value.news = JSONParse(BracketRegion(text[i])).val
      /\ kvArg[i].value.updatedAt = ToISOString(DateParse(kvArg[i].value.updatedAt))
      /\ DateParse(kvArg[i].value.updatedAt) >= startedAt[i]
      /\ DateParse(kvArg[i].value.updatedAt) <= now
      /\ kv = [key \in KvKeys |-> IF key = "daily_news" THEN kvArg[i].value ELSE NoValue]
      /\ res[i] = Html200(Len(kvArg[i].value.news.items))

C7_WriteStep ==
  \A i \in Invs :
    (~Has(i, "kv.set") /\ Has(i, "kv.set")') =>
      DateParse(kvArg[i].value.updatedAt)' = now

\* C7: every state satisfies the success condition above, and every step that
\* issues kv.set stamps the value with the clock of that step.
C7_OneWriteOfParsedArray == [](C7_SuccessState) /\ [][C7_WriteStep]_vars

\* a success some time after the request arrived, over an earlier record
C7_Witness ==
  /\ Succeeded(FirstInv)
  /\ kvInit = PriorBrief
  /\ Len(kvArg[FirstInv].value.news.items) = 2
  /\ DateParse(kvArg[FirstInv].value.updatedAt) > startedAt[FirstInv]

(***************************************************************************)
(* C8: the store is overwritten, never merged.  After any interleaving of  *)
(* invocations the value under 'daily_news' is the initial value or        *)
(* exactly the DailyBrief of the last write the store applied, whose news  *)
(* are those of that one invocation; no other key is written.              *)
(***************************************************************************)
C8_LastWriterWins ==
  /\ kv["other"] = NoValue
  /\ kv["daily_news"] =
       IF kvHist = <<>> THEN kvInit
       ELSE LET w == kvHist[Len(kvHist)]
            IN  DailyBrief(kvArg[w].value.updatedAt, summarizedNews[w])
  /\ \A i \in Invs : TimesApplied(i) <= 1

\* two runs with differing summarizer outputs: only the second's data is left
C8_Witness ==
  /\ Len(kvHist) = 2
  /\ summarizedNews[kvHist[1]] # summarizedNews[kvHist[2]]
  /\ Len(summarizedNews[kvHist[1]].items) > Len(summarizedNews[kvHist[2]].items)
  /\ \A i \in {kvHist[1], kvHist[2]} : Succeeded(i)
  /\ kv["daily_news"].news = summarizedNews[kvHist[2]]

(***************************************************************************)
(* C9: for a text prefix + '[' ... ']' + suffix whose prefix holds no '['  *)
(* and whose suffix holds no ']', the substring parsed is the region from  *)
(* the first '[' to the last ']'; when that region is an array of one or   *)
(* more well-formed objects, the parsed result is that array, whatever the *)
(* surrounding text.                                                       *)
(***************************************************************************)
\* the JSON text of a value, as JSON.stringify writes it
RECURSIVE Stringify(_), StringifyItems(_)
StringifyItems(items) ==
  IF items = <<>> THEN <<>>
  ELSE IF Len(items) = 1 THEN Stringify(items[1])
  ELSE Stringify(items[1]) \o <<",">> \o StringifyItems(Tail(items))

Stringify(v) ==
  IF v.t = "array" THEN <<"[">> \o StringifyItems(v.items) \o <<"]">>
  ELSE <<"{">> \o StringifyItems(v.items) \o <<"}">>

SampleObjects == {JsonObject(<<>>), JsonObject(<<JsonArray(<<>>)>>)}
ObjectArrays == {JsonArray(os) : os \in SeqsUpTo(SampleObjects, 2) \ {<<>>}}

NoneIs(t, c) == \A n \in DOMAIN t : t[n] # c

\* t = prefix \o a \o suffix, no '[' in the prefix, no ']' in the suffix
Wraps(t, a) ==
  \E p \in 0..Len(t) :
    /\ p + Len(a) <= Len(t)
    /\ SubSeq(t, p + 1, p + Len(a)) = a
    /\ NoneIs(SubSeq(t, 1, p), "[")
    /\ NoneIs(SubSeq(t, p + Len(a) + 1, Len(t)), "]")

C9_ExtractsWrappedArray ==
  \A i \in Invs :
    Has(i, "text") =>
      /\ \A p, q \in DOMAIN text[i] :
           ( /\ p < q /\ text[i][p] = "[" /\ text[i][q] = "]"
             /\ NoneIs(SubSeq(text[i], 1, p - 1), "[")
             /\ NoneIs(SubSeq(text[i], q + 1, Len(text[i])), "]") )
             => jsonMatch[i] = [found |-> TRUE, str |-> SubSeq(text[i], p, q)]
      /\ \A v \in ObjectArrays :
           Wraps(text[i], Stringify(v)) =>
             /\ jsonMatch[i].str = Stringify(v)
             /\ summarizedNews[i] = v
             /\ Has(i, "kv.set") /\ kvArg[i].value.news = v

\* two objects, the second holding an array, between prose as in a fenced answer
C9_Witness ==
  LET v == JsonArray(<<JsonObject(<<>>), JsonObject(<<JsonArray(<<>>)>>)>>)
  IN  /\ Has(FirstInv, "text")
      /\ text[FirstInv] = <<"x">> \o Stringify(v) \o <<"x">>
      /\ jsonMatch[FirstInv].str = Stringify(v)
      /\ summarizedNews[FirstInv] = v
      /\ Has(FirstInv, "kv.set")

(***************************************************************************)
(* C10: within one invocation the steps occur in the one order             *)
(* authenticate, fetch feed 1, fetch feed 2 (only after feed 1 answered),  *)
(* summarize, parse, store, respond; each at most once, nothing retried;   *)
(* a failure after authentication goes straight to the 500 response; a     *)
(* 200 response comes only after the store applied the write.              *)
(***************************************************************************)
Rank(ev) ==
  CASE ev.e = "auth" -> 1
    [] ev.e = "config" -> 2
    [] ev.e = "parseURL" -> 1 + 2 * ev.k
    [] ev.e = "feed" -> 2 + 2 * ev.k
    [] ev.e = "generateContent" -> 7
    [] ev.e = "text" -> 8
    [] ev.e = "match" -> 9
    [] ev.e = "JSON.parse" -> 10
    [] ev.e = "kv.set" -> 11
    [] ev.e = "kv.applied" -> 12
    [] ev.e \in {"feedError", "generateError", "kvError"} -> 13
    [] ev.e = "catch" -> 14
    [] ev.e = "respond" -> 15

\* event b may come right after event a
Follows(a, b) ==
  CASE b.e = "feedError" -> a = EvFeed("parseURL", b.k)
    [] b.e = "generateError" -> a.e = "generateContent"
    [] b.e = "kvError" -> a.e \in {"kv.set", "kv.applied"}
    [] b.e = "catch" -> a.e \in {"feedError", "generateError", "kvError", "match", "JSON.parse"}
    [] b.e = "respond" -> a.e \in {"auth", "config", "kv.applied", "catch"}
    [] OTHER -> Rank(b) = Rank(a) + 1

C10_StepsInOrderOnce ==
  \A i \in Invs :
    /\ events[i] # <<>> => events[i][1] = Ev("auth")
    /\ \A n \in DOMAIN events[i] :
         /\ events[i][n].e \in {"parseURL", "feed", "feedError"} <=> events[i][n].k \in DOMAIN RSS_FEEDS
         /\ n > 1 => /\ Rank(events[i][n - 1]) < Rank(events[i][n])
                     /\ Follows(events[i][n - 1], events[i][n])
    /\ Answered(i) <=> Has(i, "respond")
    /\ Answered(i) =>
         /\ res[i].status = 200 <=> events[i][Len(events[i]) - 1].e = "kv.applied"
         /\ res[i].status = 401 <=> events[i][Len(events[i]) - 1].e = "auth"
         /\ res[i].status = 500 <=> events[i][Len(events[i]) - 1].e \in {"config", "catch"}

\* a complete run: every step taken, once
C10_Witness ==
  /\ Succeeded(FirstInv)
  /\ Len(events[FirstInv]) = 13

=============================================================================
